---- MODULE Spec2Model ----
(***************************************************************************)
(* Transaction posting engine of the Inventory Manager                     *)
(* (inventory/transactions/services.py, class TransactionService):         *)
(* per-warehouse Stock rows, FIFO PurchaseLots, LotAllocations,            *)
(* StockMovements, and the SQLAlchemy session the unit of work runs in.    *)
(***************************************************************************)
EXTENDS Integers, Sequences, FiniteSets, Bags, TLC

---------------------------------------------------------------------------
(* Bounds of the model                                                     *)

MaxQty == 2
MaxLines == 2
MaxCalls == 2

(* Product rows of the initial catalogue, and the ids a caller may name (3 *)
(* is the id of no product until a product is added).                      *)
Products == {1, 2}
ProductIds == {1, 2, 3}
Warehouses == {1, 2}
Prices == {2, 3}
Pairs == ProductIds \X Warehouses

---------------------------------------------------------------------------
(* Nullable columns: NULL is the empty tuple, a value v is <<v>>.          *)

Null == << >>
Some(v) == << v >>

Min(a, b) == IF a <= b THEN a ELSE b

(* Error messages returned by the service.                                 *)
ErrInvalidType == "Invalid transaction type."
ErrInvalidRow == "Invalid product or quantity."
ErrQuantity == "Quantity must be greater than 0."
ErrNoItems == "No items provided."
ErrShortage == "Not enough stock for sale:"
ErrProductNotFound == "Product not found."
ErrLineShortage == "Not enough stock for product in this warehouse"
ErrGeneric == "Failed to create transaction. Please try again."

(* Texts of the exceptions other than TransactionError that the unit of    *)
(* work raises.                                                            *)
ExcValueError == "ValueError: invalid literal"
ExcInvalidRequest ==
    "InvalidRequestError: A transaction is already begun on this Session."
ExcOperational == "OperationalError: database is locked"

TransactionErrors == {ErrProductNotFound, ErrQuantity, ErrLineShortage}

(* A row of the items list is a dict of form values.  malformed names the  *)
(* key whose value is not a number ("" when all are numbers); the field of *)
(* that key is then never read.  int(row.get(key)) / float(row.get(key)):  *)
(* Null stands for the ValueError.                                         *)
Parse(row, key) == IF row.malformed = key THEN Null ELSE Some(row[key])

---------------------------------------------------------------------------
(* The persisted tables.  Row ids are positions in the table's sequence    *)
(* (autoincrement primary keys).  The Stock table is the bag of the        *)
(* (product_id, warehouse_id) keys of its rows, with the quantity held     *)
(* under each key.                                                         *)

EmptyDb ==
    [ products |-> Products,
      warehouses |-> Warehouses,
      product_quantity |-> [p \in ProductIds |-> 0],
      default_purchase_price |->
          [p \in ProductIds |-> IF p \in Products THEN p ELSE 0],
      stock_rows |-> EmptyBag,
      stock_qty |-> [pw \in Pairs |-> 0],
      lots |-> << >>,
      txns |-> << >>,
      items |-> << >>,
      allocs |-> << >>,
      moves |-> << >> ]

(* Stock.query.filter_by(product_id, warehouse_id).first() or a new row    *)
(* with quantity 0, flushed.                                               *)
(* Variant: a row is inserted without looking for one.                     *)
StockFoundNever(d, p, w) == FALSE

StockFound(d, p, w) == BagIn(<<p, w>>, d.stock_rows)

GetOrCreateStock(d, p, w) ==
    IF StockFound(d, p, w)
    THEN d
    ELSE [d EXCEPT !.stock_rows = @ (+) SetToBag({<<p, w>>}),
                   !.stock_qty[<<p, w>>] = 0]

---------------------------------------------------------------------------
(* _precheck_sale_stock                                                    *)

RECURSIVE Requested(_, _)
Requested(items, pid) ==
    IF items = << >> THEN 0
    ELSE (IF Head(items).product_id = pid THEN Head(items).quantity ELSE 0)
         + Requested(Tail(items), pid)

RequestedIds(items) == {items[i].product_id : i \in 1..Len(items)}

Available(d, pid, w) ==
    IF BagIn(<<pid, w>>, d.stock_rows) THEN d.stock_qty[<<pid, w>>] ELSE 0

(* Variant: each row compared with the stock on its own.                   *)
ShortagesPerLine(d, items, w) ==
    {pid \in RequestedIds(items) :
        \E i \in 1..Len(items) :
            /\ items[i].product_id = pid
            /\ items[i].quantity > Available(d, pid, w)}

Shortages(d, items, w) ==
    {pid \in RequestedIds(items) : Requested(items, pid) > Available(d, pid, w)}

(* error: the message, "" for None; queried: whether the Product and Stock *)
(* queries were issued on the session.                                     *)
RowUnparsed(row) ==
    Parse(row, "product_id") = Null \/ Parse(row, "quantity") = Null

(* The rows are read in order: the first one that does not parse or has a  *)
(* quantity <= 0 ends the pre-check.                                       *)
FirstBadRow(items) ==
    LET bad == {i \in 1..Len(items) :
                   RowUnparsed(items[i]) \/ items[i].quantity <= 0}
    IN  IF bad = {} THEN 0 ELSE CHOOSE i \in bad : \A j \in bad : i <= j

PrecheckSaleStock(d, items, w) ==
    IF FirstBadRow(items) # 0
    THEN [error |-> IF RowUnparsed(items[FirstBadRow(items)])
                    THEN ErrInvalidRow ELSE ErrQuantity,
          queried |-> FALSE]
    ELSE IF items = << >>
    THEN [error |-> ErrNoItems, queried |-> FALSE]
    ELSE IF Shortages(d, items, w) # {}
    THEN [error |-> ErrShortage, queried |-> TRUE]
    ELSE [error |-> "", queried |-> TRUE]

---------------------------------------------------------------------------
(* _fifo_consume_with_allocations                                          *)

(* .filter_by(product_id=product_id, warehouse_id=warehouse_id)            *)
(* Variant: the lots of the product in every warehouse.                    *)
LotIdsAnyWarehouse(d, p, w) ==
    {i \in 1..Len(d.lots) : d.lots[i].product_id = p}

LotIds(d, p, w) ==
    {i \in 1..Len(d.lots) :
        d.lots[i].product_id = p /\ d.lots[i].warehouse_id = w}

(* Variant: newest lot first.                                              *)
LotBeforeNewestFirst(d, i, j) ==
    \/ d.lots[i].received_at > d.lots[j].received_at
    \/ /\ d.lots[i].received_at = d.lots[j].received_at
       /\ i > j

(* order_by(received_at.asc(), id.asc())                                   *)
LotBefore(d, i, j) ==
    \/ d.lots[i].received_at < d.lots[j].received_at
    \/ /\ d.lots[i].received_at = d.lots[j].received_at
       /\ i < j

RECURSIVE SortLots(_, _)
SortLots(d, S) ==
    IF S = {} THEN << >>
    ELSE LET m == CHOOSE i \in S : \A j \in S \ {i} : LotBefore(d, i, j)
         IN  <<m>> \o SortLots(d, S \ {m})

(* Variant: drained lots stay in the list.                                 *)
LotOpenAlways(quantity_remaining) == TRUE

(* .filter(PurchaseLot.quantity_remaining > 0)                             *)
LotOpen(quantity_remaining) == quantity_remaining > 0

FifoLots(d, p, w) ==
    SortLots(d, {i \in LotIds(d, p, w) :
                    LotOpen(d.lots[i].quantity_remaining)})

(* Variant: the whole outstanding quantity is taken from the lot.          *)
TakeAll(qty_to_consume, quantity_remaining) == qty_to_consume

(* Variant: up to one unit more than the lot holds is taken.               *)
TakeOneMore(qty_to_consume, quantity_remaining) ==
    Min(qty_to_consume, quantity_remaining + 1)

Take(qty_to_consume, quantity_remaining) ==
    Min(qty_to_consume, quantity_remaining)

(* lot.quantity_remaining -= take                                          *)
(* Variants: the lot keeps what it held; the taken units are added.        *)
RemainingUnchanged(quantity_remaining, take) == quantity_remaining

RemainingAdds(quantity_remaining, take) == quantity_remaining + take

Remaining(quantity_remaining, take) == quantity_remaining - take

RECURSIVE ConsumeLots(_, _, _, _, _)
ConsumeLots(d, order, item_id, qty_to_consume, cost_used) ==
    IF order = << >> \/ qty_to_consume <= 0
    THEN [db |-> d, qty_to_consume |-> qty_to_consume, cost_used |-> cost_used]
    ELSE LET l == Head(order)
             take == Take(qty_to_consume, d.lots[l].quantity_remaining)
             unit_cost == d.lots[l].unit_cost
             d1 == [d EXCEPT
                      !.lots[l].quantity_remaining = Remaining(@, take),
                      !.allocs = Append(@,
                          [transaction_item_id |-> item_id,
                           purchase_lot_id |-> l,
                           quantity |-> take,
                           unit_cost |-> unit_cost])]
         IN  ConsumeLots(d1, Tail(order), item_id,
                         qty_to_consume - take, cost_used + take * unit_cost)

(* The most recently received lot of the pair, drained lots included.      *)
LastLotCost(d, p, w) ==
    IF LotIds(d, p, w) = {} THEN 0
    ELSE LET last_lot == CHOOSE i \in LotIds(d, p, w) :
                            \A j \in LotIds(d, p, w) \ {i} : LotBefore(d, j, i)
         IN  d.lots[last_lot].unit_cost

(* Variant: the product's default purchase price whatever allow_negative.  *)
FallbackCostDefault(d, p, w, allow_negative) ==
    IF p \in d.products THEN d.default_purchase_price[p] ELSE 0

FallbackCost(d, p, w, allow_negative) ==
    IF allow_negative THEN LastLotCost(d, p, w)
    ELSE IF p \in d.products THEN d.default_purchase_price[p] ELSE 0

FifoConsumeWithAllocations(d, item_id, p, w, qty, allow_negative) ==
    LET r == ConsumeLots(d, FifoLots(d, p, w), item_id, qty, 0)
    IN  IF r.qty_to_consume > 0
        THEN [db |-> r.db,
              cost_used |-> r.cost_used
                  + r.qty_to_consume * FallbackCost(r.db, p, w, allow_negative),
              shortfall |-> r.qty_to_consume]
        ELSE [db |-> r.db, cost_used |-> r.cost_used, shortfall |-> 0]

---------------------------------------------------------------------------
(* _create_header: the Transaction row, flushed.                           *)

CreateHeader(d, call) ==
    [d EXCEPT !.txns = Append(@,
        [type |-> call.ttype,
         warehouse_id |-> call.warehouse_id,
         locked |-> TRUE])]

(* datetime.utcnow() of a purchase line: the clock never runs backwards,   *)
(* and two lines may read the same instant (adv = 0).                      *)
RECURSIVE MaxReceived(_)
MaxReceived(lots) ==
    IF lots = << >> THEN 0
    ELSE LET m == MaxReceived(Tail(lots))
         IN  IF Head(lots).received_at > m THEN Head(lots).received_at ELSE m

UtcNow(d, adv) == MaxReceived(d.lots) + adv

---------------------------------------------------------------------------
(* Product.query.get(product_id) finds no row.                             *)
(* Variant: every id is taken for a product.                               *)
ProductMissingNever(d, p) == FALSE

ProductMissing(d, p) == p \notin d.products

---------------------------------------------------------------------------
(* _purchase_item: err is the TransactionError raised, "" for none.        *)

(* Variants: the quantity is subtracted; the quantity replaces the stock;  *)
(* the quantity is added twice.                                            *)
NewStockPurchaseMinus(quantity, qty) == quantity - qty

NewStockPurchaseTwice(quantity, qty) == quantity + qty + qty

NewStockPurchaseSet(quantity, qty) == qty

NewStockPurchase(quantity, qty) == quantity + qty

PurchaseItem(d, txn_id, owner_id, p, qty, unit_cost, adv) ==
    IF ProductMissing(d, p) THEN [err |-> ErrProductNotFound, db |-> d]
    ELSE IF qty <= 0 THEN [err |-> ErrQuantity, db |-> d]
    ELSE
      LET w == d.txns[txn_id].warehouse_id
          item_id == Len(d.items) + 1
          d1 == [d EXCEPT !.items = Append(@,
                    [transaction_id |-> txn_id,
                     product_id |-> p,
                     quantity |-> qty,
                     unit_price |-> unit_cost,
                     total_price |-> qty * unit_cost,
                     cost_used |-> Null,
                     profit |-> Null])]
          d2 == GetOrCreateStock(d1, p, w)
          d3 == [d2 EXCEPT
                    !.stock_qty[<<p, w>>] = NewStockPurchase(@, qty),
                    !.lots = Append(@,
                        [product_id |-> p,
                         warehouse_id |-> w,
                         quantity_remaining |-> qty,
                         unit_cost |-> unit_cost,
                         received_at |-> UtcNow(d2, adv),
                         transaction_item_id |-> item_id]),
                    !.moves = Append(@,
                        [owner_id |-> owner_id,
                         transaction_id |-> txn_id,
                         transaction_item_id |-> item_id,
                         product_id |-> p,
                         warehouse_id |-> w,
                         direction |-> "IN",
                         quantity |-> qty,
                         unit_cost |-> Some(<<unit_cost, 1>>),
                         unit_price |-> Null])]
      IN  [err |-> "", db |-> d3]

---------------------------------------------------------------------------
(* _sale_item.  The StockMovement's unit_cost is cost_used / qty, kept as  *)
(* the fraction <<cost_used, qty>>.                                        *)

(* direction of the StockMovement of a sale line.                          *)
(* Variant: written as an inbound movement.                                *)
SaleDirectionIn == "IN"

SaleDirection == "OUT"

(* if (not allow_negative) and stock.quantity < qty                        *)
(* Variant: a line asking for all that is left is refused as well.         *)
LineCheckFailsStrict(allow_negative, quantity, qty) ==
    ~allow_negative /\ quantity <= qty

LineCheckFails(allow_negative, quantity, qty) ==
    ~allow_negative /\ quantity < qty

(* Variant: one unit leaves the stock whatever the quantity sold.          *)
NewStockSaleOne(quantity, qty) == quantity - 1

(* Variant: operands of the profit exchanged.                              *)
ProfitReversed(total_price, cost_used) == cost_used - total_price

Profit(total_price, cost_used) == total_price - cost_used

(* Variant: the sale leaves Stock.quantity as it was.                      *)
NewStockSaleNone(quantity, qty) == quantity

NewStockSale(quantity, qty) == quantity - qty

SaleItem(d, txn_id, owner_id, p, qty, sell_price, allow_negative) ==
    IF ProductMissing(d, p) THEN [err |-> ErrProductNotFound, db |-> d]
    ELSE IF qty <= 0 THEN [err |-> ErrQuantity, db |-> d]
    ELSE
      LET w == d.txns[txn_id].warehouse_id
          total_price == qty * sell_price
          d1 == GetOrCreateStock(d, p, w)
      IN  IF LineCheckFails(allow_negative, d1.stock_qty[<<p, w>>], qty)
          THEN [err |-> ErrLineShortage, db |-> d1]
          ELSE
            LET item_id == Len(d1.items) + 1
                d2 == [d1 EXCEPT !.items = Append(@,
                          [transaction_id |-> txn_id,
                           product_id |-> p,
                           quantity |-> qty,
                           unit_price |-> sell_price,
                           total_price |-> total_price,
                           cost_used |-> Null,
                           profit |-> Null])]
                f == FifoConsumeWithAllocations(d2, item_id, p, w, qty,
                                                allow_negative)
                d3 == [f.db EXCEPT
                          !.stock_qty[<<p, w>>] = NewStockSale(@, qty),
                          !.items[item_id].cost_used = Some(f.cost_used),
                          !.items[item_id].profit =
                              Some(Profit(total_price, f.cost_used)),
                          !.moves = Append(@,
                              [owner_id |-> owner_id,
                               transaction_id |-> txn_id,
                               transaction_item_id |-> item_id,
                               product_id |-> p,
                               warehouse_id |-> w,
                               direction |-> SaleDirection,
                               quantity |-> qty,
                               unit_cost |-> Some(<<f.cost_used, qty>>),
                               unit_price |-> Some(sell_price)])]
            IN  [err |-> "", db |-> d3]

---------------------------------------------------------------------------
(* create_transaction                                                      *)

(* One pass of the loop over the rows inside the unit of work: row n.  err *)
(* is the text of the exception raised, "" for none.                       *)
PostLine(d, call, txn_id, adv, n) ==
    LET row == call.items[n]
    IN  IF \E key \in {"product_id", "quantity", "unit_price"} :
               Parse(row, key) = Null
        THEN [err |-> ExcValueError, db |-> d]
        ELSE IF row.quantity <= 0 THEN [err |-> ErrQuantity, db |-> d]
        ELSE IF call.ttype = "Purchase"
        THEN PurchaseItem(d, txn_id, call.owner_id, row.product_id,
                          row.quantity, row.unit_price, adv)
        ELSE SaleItem(d, txn_id, call.owner_id, row.product_id,
                      row.quantity, row.unit_price, call.allow_negative)

(* The loop over rows 1..n: the first failing row raises and ends it.      *)
RECURSIVE PostLines(_, _, _, _, _)
PostLines(d, call, txn_id, adv, n) ==
    IF n = 0 THEN [err |-> "", db |-> d]
    ELSE
      LET r == PostLines(d, call, txn_id, adv, n - 1)
      IN  IF r.err # "" THEN r
          ELSE PostLine(r.db, call, txn_id, adv, n)

(* The body of "with db.session.begin():" on the working state d.          *)
PostUnit(d, call, adv) ==
    LET h == CreateHeader(d, call)
    IN  PostLines(h, call, Len(h.txns), adv, Len(call.items))

(* A query on the session begins its transaction (autobegin);              *)
(* db.session.begin() raises InvalidRequestError when one is in progress.  *)
AfterQuery(active, queried) == active \/ queried

BeginRaises(active) == active

(* Variant: what the unit flushed stays in the database.                   *)
RollbackKeepsFlushed(before, working) == working

(* Leaving the with block: by an exception (rollback) or normally (commit) *)
Rollback(before, working) == before

Commit(before, working) == working

Failure(msg) ==
    [ok |-> FALSE, error |-> msg, txn |-> 0, items |-> << >>,
     propagated |-> ""]

(* No result: the exception exc leaves create_transaction uncaught.        *)
Propagates(exc) ==
    [ok |-> FALSE, error |-> "", txn |-> 0, items |-> << >>,
     propagated |-> exc]

(* Variant: the text of whatever was raised is returned.                   *)
ErrorMessageLeaks(exc) == exc

(* except TransactionError as e: str(e); except Exception: the fixed text. *)
ErrorMessage(exc) == IF exc \in TransactionErrors THEN exc ELSE ErrGeneric

Success(before, after) ==
    [ok |-> TRUE, error |-> "", txn |-> Len(after.txns),
     items |-> [i \in 1..(Len(after.items) - Len(before.items)) |->
                   Len(before.items) + i],
     propagated |-> ""]

NeedsPrecheck(call) == call.ttype = "Sale" /\ ~call.allow_negative

(* What precedes the unit of work: the type check and, for a Sale without  *)
(* allow_negative, int(warehouse_id) and the pre-check, none of them       *)
(* inside the try block.  error is "" when the call goes on; propagated is *)
(* the exception that int() raises on a warehouse_id that is not a number. *)
PreUnit(d, active, call) ==
    LET pre_r == PrecheckSaleStock(d, call.items, call.warehouse_id)
        active1 == IF NeedsPrecheck(call)
                   THEN AfterQuery(active, pre_r.queried) ELSE active
    IN  IF call.ttype \notin {"Purchase", "Sale"}
        THEN [error |-> ErrInvalidType, active |-> active, propagated |-> ""]
        ELSE IF NeedsPrecheck(call) /\ Parse(call, "warehouse_id") = Null
        THEN [error |-> "", active |-> active, propagated |-> ExcValueError]
        ELSE IF NeedsPrecheck(call) /\ pre_r.error # ""
        THEN [error |-> pre_r.error, active |-> active1, propagated |-> ""]
        ELSE [error |-> "", active |-> active1, propagated |-> ""]

CreateTransaction(d, active, call, adv) ==
    LET g == PreUnit(d, active, call)
        unit == PostUnit(d, call, adv)
    IN  IF g.propagated # ""
        THEN [result |-> Propagates(g.propagated), db |-> d,
              active |-> g.active, raised |-> ""]
        ELSE IF g.error # ""
        THEN [result |-> Failure(g.error), db |-> d, active |-> g.active,
              raised |-> ""]
        ELSE IF BeginRaises(g.active)
        THEN [result |-> Failure(ErrorMessage(ExcInvalidRequest)), db |-> d,
              active |-> g.active, raised |-> ExcInvalidRequest]
        ELSE IF unit.err # ""
        THEN [result |-> Failure(ErrorMessage(unit.err)),
              db |-> Rollback(d, unit.db), active |-> FALSE,
              raised |-> unit.err]
        ELSE [result |-> Success(d, unit.db), db |-> Commit(d, unit.db),
              active |-> FALSE, raised |-> ""]

---------------------------------------------------------------------------
(* routes/products.py and routes/warehouses.py: the handlers that write    *)
(* Product, Stock and Warehouse rows.  Each returns the committed          *)
(* database; a handler that redirects early commits nothing.               *)

RECURSIVE StockSum(_, _, _)
StockSum(d, p, ws) ==
    IF ws = {} THEN 0
    ELSE LET w == CHOOSE x \in ws : TRUE
         IN  (IF BagIn(<<p, w>>, d.stock_rows) THEN d.stock_qty[<<p, w>>] ELSE 0)
             + StockSum(d, p, ws \ {w})

(* product.quantity = sum((s.quantity or 0) for s in product.stocks)       *)
LegacySync(d, p) ==
    [d EXCEPT !.product_quantity[p] = StockSum(d, p, Warehouses)]

Max(a, b) == IF a >= b THEN a ELSE b

(* The id the database gives a new Product row: one above the greatest.    *)
NewProductId(d) ==
    IF d.products = {} THEN 1
    ELSE (CHOOSE m \in d.products : \A q \in d.products : q <= m) + 1

(* add_product.  target is the product that has the SKU of the form, 0     *)
(* when no product has it.                                                 *)
AddProduct(d, target, warehouse_id, quantity, purchase_price) ==
    IF warehouse_id \notin d.warehouses THEN d
    ELSE LET existing == target \in d.products
             id == IF existing THEN target ELSE NewProductId(d)
             d1 == IF existing THEN d
                   ELSE [d EXCEPT !.products = @ \cup {id},
                                  !.product_quantity[id] = 0]
             d2 == GetOrCreateStock(d1, id, warehouse_id)
             d3 == [d2 EXCEPT
                      !.stock_qty[<<id, warehouse_id>>] = @ + Max(quantity, 0),
                      !.default_purchase_price[id] = purchase_price]
         IN  LegacySync(d3, id)

(* edit_product.  purchase_price and stock_qty are Null when the form      *)
(* leaves them out, warehouse_id is 0 when it names no warehouse, conflict *)
(* tells whether another product has the SKU of the form.                  *)
EditProduct(d, id, purchase_price, conflict, warehouse_id, stock_qty) ==
    IF id \notin d.products \/ conflict THEN d
    ELSE IF warehouse_id # 0 /\ warehouse_id \notin d.warehouses THEN d
    ELSE LET d1 == IF purchase_price = Null THEN d
                   ELSE [d EXCEPT !.default_purchase_price[id] = purchase_price[1]]
             d2 == IF warehouse_id # 0 /\ stock_qty # Null /\ stock_qty[1] >= 0
                   THEN [GetOrCreateStock(d1, id, warehouse_id) EXCEPT
                            !.stock_qty[<<id, warehouse_id>>] = stock_qty[1]]
                   ELSE d1
         IN  LegacySync(d2, id)

RemoveStockRows(d, gone) ==
    [d EXCEPT
       !.stock_rows = [pw \in DOMAIN @ \ gone |-> @[pw]],
       !.stock_qty = [pw \in Pairs |-> IF pw \in gone THEN 0 ELSE @[pw]]]

(* delete_product: refused while a Stock row of the product is positive or *)
(* a TransactionItem names it; its Stock rows go with it (cascade).        *)
DeleteProduct(d, id) ==
    LET has_stock == \E w \in Warehouses :
                        /\ BagIn(<<id, w>>, d.stock_rows)
                        /\ d.stock_qty[<<id, w>>] > 0
        used_in_txn == \E i \in 1..Len(d.items) : d.items[i].product_id = id
    IN  IF id \notin d.products \/ has_stock \/ used_in_txn THEN d
        ELSE [RemoveStockRows(d, {id} \X Warehouses) EXCEPT
                 !.products = @ \ {id},
                 !.product_quantity[id] = 0,
                 !.default_purchase_price[id] = 0]

(* delete_warehouse: refused while a Stock row of the warehouse is         *)
(* positive or a Transaction names it; its Stock rows go with it.          *)
DeleteWarehouse(d, id) ==
    LET has_stock == \E q \in ProductIds :
                        /\ BagIn(<<q, id>>, d.stock_rows)
                        /\ d.stock_qty[<<q, id>>] > 0
        has_txn == \E i \in 1..Len(d.txns) : d.txns[i].warehouse_id = id
    IN  IF id \notin d.warehouses \/ has_stock \/ has_txn THEN d
        ELSE [RemoveStockRows(d, ProductIds \X {id}) EXCEPT
                 !.warehouses = @ \ {id}]

---------------------------------------------------------------------------
(* routes/transactions.py: POST /transactions.                             *)

(* validators.py: the messages the form earns; partner_id and warehouse_id *)
(* are 0 when the field is empty.                                          *)
ValidateTransactionFormData(ttype, partner_id, warehouse_id, items) ==
    (IF ttype = "" THEN {"Transaction type required."} ELSE {})
    \cup (IF partner_id = 0 THEN {"Partner required."} ELSE {})
    \cup (IF warehouse_id = 0 THEN {"Warehouse required."} ELSE {})
    \cup (IF items = << >> THEN {"At least one product is required."}
          ELSE {})
    \cup {"Row: invalid quantity." : i \in
            {j \in 1..Len(items) : Parse(items[j], "quantity") = Null}}
    \cup {"Row: quantity must be > 0." : i \in
            {j \in 1..Len(items) :
                Parse(items[j], "quantity") # Null /\ items[j].quantity <= 0}}
    \cup {"Row: invalid unit price." : i \in
            {j \in 1..Len(items) : Parse(items[j], "unit_price") = Null}}
    \cup {"Row: unit price cannot be negative." : i \in
            {j \in 1..Len(items) :
                Parse(items[j], "unit_price") # Null
                /\ items[j].unit_price < 0}}

(* The partners of the organization.                                       *)
PartnersOwned == {1}

(* The keyword-only parameters of create_transaction that have no default, *)
(* and the keywords the handler passes.                                    *)
RequiredKeywords ==
    {"ttype", "partner_id", "warehouse_id", "user_id", "items", "owner_id"}

RouteKeywords == {"ttype", "partner_id", "warehouse_id", "user_id", "items"}

ExcTypeError ==
    "TypeError: create_transaction() missing required keyword-only argument"

(* What the handler makes of the result r of create_transaction.           *)
FromPoster(r) == [result |-> r.result, db |-> r.db, called |-> TRUE]

(* The handler on the committed database d.  Its queries have begun the    *)
(* transaction of the request's session by the time it calls               *)
(* create_transaction.  result is what the request ends with: Failure with *)
(* the handler's own flashed message, the result of create_transaction, or *)
(* the exception that leaves the handler; called tells whether the body of *)
(* create_transaction ran.                                                 *)
TransactionsPost(d, form) ==
    LET flashed(msg) == [result |-> Failure(msg), db |-> d, called |-> FALSE]
        errors == ValidateTransactionFormData(form.ttype, form.partner_id,
                                              form.warehouse_id, form.items)
        call == [ttype |-> form.ttype, warehouse_id |-> form.warehouse_id,
                 owner_id |-> 1, items |-> form.items,
                 allow_negative |-> FALSE, malformed |-> ""]
    IN  IF form.ttype \notin {"Sale", "Purchase"}
        THEN flashed("Invalid transaction type.")
        ELSE IF errors # {} THEN flashed(CHOOSE e \in errors : TRUE)
        ELSE IF form.developer
        THEN flashed("Developer must create transactions from an owner context.")
        ELSE IF form.warehouse_id \notin d.warehouses
        THEN flashed("Invalid warehouse.")
        ELSE IF form.partner_id \notin PartnersOwned
        THEN flashed("Invalid partner.")
        ELSE IF \E i \in 1..Len(form.items) :
                   \/ Parse(form.items[i], "product_id") = Null
                   \/ form.items[i].product_id \notin d.products
        THEN flashed("Invalid product.")
        ELSE IF ~(RequiredKeywords \subseteq RouteKeywords)
        THEN [result |-> Propagates(ExcTypeError), db |-> d,
              called |-> FALSE]
        ELSE FromPoster(CreateTransaction(d, TRUE, call, 1))

---------------------------------------------------------------------------
(* Inputs                                                                  *)

(* Rows a caller may send: every valid row, a row naming no product, a row *)
(* with quantity 0, a row whose product_id is not a number and a row whose *)
(* unit_price is not a number.                                             *)
ValidRows ==
    [product_id : Products, quantity : 1..MaxQty, unit_price : Prices,
     malformed : {""}]

InvalidRows ==
    {[product_id |-> 3, quantity |-> 1, unit_price |-> 2, malformed |-> ""],
     [product_id |-> 1, quantity |-> 0, unit_price |-> 2, malformed |-> ""],
     [product_id |-> 0, quantity |-> 1, unit_price |-> 2,
      malformed |-> "product_id"],
     [product_id |-> 1, quantity |-> 1, unit_price |-> 0,
      malformed |-> "unit_price"]}

Rows == ValidRows \cup InvalidRows

ItemLists == UNION {[1..n -> Rows] : n \in 0..MaxLines}

Calls ==
    [ttype : {"Purchase"}, warehouse_id : {1}, owner_id : {1},
     items : ItemLists, allow_negative : {FALSE}, malformed : {""}]
    \cup
    [ttype : {"Sale"}, warehouse_id : {1}, owner_id : {1},
     items : ItemLists, allow_negative : BOOLEAN, malformed : {""}]
    \cup
    [ttype : {"Transfer"}, warehouse_id : {1}, owner_id : {1},
     items : {<<[product_id |-> 1, quantity |-> 1, unit_price |-> 2,
                 malformed |-> ""]>>},
     allow_negative : {FALSE}, malformed : {""}]

(* Calls on the second warehouse: one row of product 1.                    *)
OtherWarehouseCalls ==
    {c \in [ttype : {"Purchase", "Sale"}, warehouse_id : {2},
             owner_id : {1},
             items : [1..1 -> [product_id : {1}, quantity : 1..MaxQty,
                               unit_price : {2}, malformed : {""}]],
             allow_negative : BOOLEAN, malformed : {""}] :
        c.ttype = "Purchase" => ~c.allow_negative}

(* Sales with allow_negative = false whose warehouse_id is not a number.   *)
MalformedWarehouseCalls ==
    [ttype : {"Sale"}, warehouse_id : {0}, owner_id : {1},
     items : {<< >>,
              <<[product_id |-> 1, quantity |-> 1, unit_price |-> 2,
                 malformed |-> ""]>>},
     allow_negative : {FALSE}, malformed : {"warehouse_id"}]

AllCalls == Calls \cup OtherWarehouseCalls \cup MalformedWarehouseCalls

NoCall ==
    [ttype |-> "none", warehouse_id |-> 1, owner_id |-> 1,
     items |-> << >>, allow_negative |-> FALSE, malformed |-> ""]

(* Forms posted to /transactions: by a member of the organization or by a  *)
(* Developer, for a warehouse of the organization or for one that is not,  *)
(* with one row: a valid one, one with quantity 0, one naming product 3.   *)
Forms ==
    [ttype : {"Purchase", "Sale"}, partner_id : {1}, warehouse_id : {1, 3},
     items : {<<r>> : r \in
                {[product_id |-> 1, quantity |-> 1, unit_price |-> 2,
                  malformed |-> ""],
                 [product_id |-> 1, quantity |-> 0, unit_price |-> 2,
                  malformed |-> ""],
                 [product_id |-> 3, quantity |-> 1, unit_price |-> 2,
                  malformed |-> ""]}},
     developer : BOOLEAN]

NoForm ==
    [ttype |-> "none", partner_id |-> 0, warehouse_id |-> 0,
     items |-> << >>, developer |-> FALSE]

(* Values of the quantity, stock_qty and purchase_price fields of the      *)
(* product forms.                                                          *)
FormQuantities == {-1, 0, MaxQty}

FormPrices == {0, 3}

---------------------------------------------------------------------------
(* State: the committed database, the session of the caller's application  *)
(* context, a record of the latest call (its input, its result, the        *)
(* database it started from), and the kinds of operation made so far.      *)

(* procs and writer belong to the concurrent specification below: the      *)
(* calls in progress in two request threads, each with its own session,    *)
(* and the holder of the database's write lock (0 for none).               *)
VARIABLES db, session_active, pre, last, used, ncalls, procs, writer

vars == <<db, session_active, pre, last, used, ncalls, procs, writer>>

Procs == {1, 2}

IdleProc ==
    [pc |-> "idle", call |-> NoCall, adv |-> 0, active |-> FALSE,
     work |-> EmptyDb, line |-> 0, result |-> Failure(""),
     overlapped |-> FALSE]

Init ==
    /\ db = EmptyDb
    /\ session_active = FALSE
    /\ pre = EmptyDb
    /\ last = [op |-> "none", call |-> NoCall, adv |-> 0,
               result |-> Failure(""), raised |-> "", form |-> NoForm,
               called |-> FALSE]
    /\ used = {}
    /\ ncalls = 0
    /\ procs = [p \in Procs |-> IdleProc]
    /\ writer = 0

(* The call ends as r says.                                                *)
Returned(call, adv, r) ==
    /\ db' = r.db
    /\ session_active' = r.active
    /\ last' = [op |-> "create_transaction", call |-> call, adv |-> adv,
                result |-> r.result, raised |-> r.raised,
                form |-> NoForm, called |-> TRUE]

Post(call, adv) ==
    /\ ncalls < MaxCalls
    /\ Returned(call, adv, CreateTransaction(db, session_active, call, adv))
    /\ pre' = db
    /\ used' = IF call.allow_negative THEN used \cup {"allow_negative"} ELSE used
    /\ ncalls' = ncalls + 1
    /\ UNCHANGED <<procs, writer>>

(* End of the request / application context: Flask-SQLAlchemy removes the  *)
(* scoped session, which ends its transaction.                             *)
Teardown ==
    /\ session_active
    /\ session_active' = FALSE
    /\ UNCHANGED <<db, pre, last, used, ncalls, procs, writer>>

(* A request to one of the product or warehouse handlers, served in its    *)
(* own application context from start to commit: d is the database it      *)
(* leaves.                                                                 *)
Request(op, d) ==
    /\ ncalls < MaxCalls
    /\ db' = d
    /\ pre' = db
    /\ last' = [op |-> op, call |-> NoCall, adv |-> 0, result |-> Failure(""),
                raised |-> "", form |-> NoForm, called |-> FALSE]
    /\ used' = used \cup {op}
    /\ ncalls' = ncalls + 1
    /\ UNCHANGED <<session_active, procs, writer>>

AddProductRequest(target, warehouse_id, quantity, purchase_price) ==
    /\ target = 0 => NewProductId(db) \in ProductIds
    /\ Request("add_product",
               AddProduct(db, target, warehouse_id, quantity, purchase_price))

EditProductRequest(id, purchase_price, conflict, warehouse_id, stock_qty) ==
    Request("edit_product",
            EditProduct(db, id, purchase_price, conflict, warehouse_id,
                        stock_qty))

DeleteProductRequest(id) ==
    Request("delete_product", DeleteProduct(db, id))

DeleteWarehouseRequest(id) ==
    Request("delete_warehouse", DeleteWarehouse(db, id))

(* The request for form ends as r says.                                    *)
Served(form, r) ==
    /\ db' = r.db
    /\ last' = [op |-> "transactions", call |-> NoCall, adv |-> 1,
                result |-> r.result, raised |-> "", form |-> form,
                called |-> r.called]

(* POST /transactions, served in its own application context.              *)
TransactionsRequest(form) ==
    /\ ncalls < MaxCalls
    /\ Served(form, TransactionsPost(db, form))
    /\ pre' = db
    /\ used' = used \cup {"transactions"}
    /\ ncalls' = ncalls + 1
    /\ UNCHANGED <<session_active, procs, writer>>

Next ==
    \/ \E call \in AllCalls :
         \E adv \in (IF call.ttype = "Purchase" THEN {0, 1} ELSE {0}) :
           Post(call, adv)
    \/ Teardown
    \/ \E target \in db.products \cup {0}, w \in Warehouses,
          quantity \in FormQuantities, purchase_price \in FormPrices :
         AddProductRequest(target, w, quantity, purchase_price)
    \/ \E id \in ProductIds,
          purchase_price \in {Null} \cup {Some(c) : c \in FormPrices},
          conflict \in BOOLEAN, w \in {0} \cup Warehouses,
          stock_qty \in {Null} \cup {Some(q) : q \in FormQuantities} :
         EditProductRequest(id, purchase_price, conflict, w, stock_qty)
    \/ \E id \in ProductIds : DeleteProductRequest(id)
    \/ \E id \in Warehouses : DeleteWarehouseRequest(id)
    \/ \E form \in Forms : TransactionsRequest(form)

Spec == Init /\ [][Next]_vars

---------------------------------------------------------------------------
(* Two create_transaction calls running at the same time, each in its own  *)
(* request thread with its own scoped session, on the SQLite database of   *)
(* config.py.  SQLite has one writer at a time: the first flush of a unit  *)
(* of work (the header INSERT) takes the write lock, held until the unit   *)
(* commits or rolls back; a second writer waits, or gives up with          *)
(* "database is locked" when the busy timeout expires.  Reads outside a    *)
(* unit of work (the pre-check) see the committed database.                *)

ConcRows ==
    {r \in Rows : r.unit_price = 2 /\ r.product_id # 2 /\ r.malformed = ""}

ConcCalls ==
    [ttype : {"Sale"}, warehouse_id : {1}, owner_id : {1},
     items : UNION {[1..n -> ConcRows] : n \in 1..MaxLines},
     allow_negative : BOOLEAN, malformed : {""}]
    \cup
    [ttype : {"Purchase"}, warehouse_id : {1}, owner_id : {1},
     items : [1..1 -> ConcRows \cap ValidRows],
     allow_negative : {FALSE}, malformed : {""}]

(* The databases the two calls start from: the empty one, or one          *)
(* committed one-row purchase of product 1.                                *)
SeedCalls ==
    [ttype : {"Purchase"}, warehouse_id : {1}, owner_id : {1},
     items : [1..1 -> {r \in ValidRows : r.product_id = 1}],
     allow_negative : {FALSE}, malformed : {""}]

SeedDbs ==
    {EmptyDb} \cup {CreateTransaction(EmptyDb, FALSE, c, 1).db : c \in SeedCalls}

(* pre keeps the database the two calls start from.                        *)
InitConc ==
    /\ db \in SeedDbs
    /\ session_active = FALSE
    /\ pre = db
    /\ last = [op |-> "none", call |-> NoCall, adv |-> 0,
               result |-> Failure(""), raised |-> "", form |-> NoForm,
               called |-> FALSE]
    /\ used = {}
    /\ ncalls = 0
    /\ procs = [p \in Procs |-> IdleProc]
    /\ writer = 0

Finish(p, result, active) ==
    procs' = [procs EXCEPT ![p].pc = "done", ![p].result = result,
                           ![p].active = active]

(* The call is made: type check and pre-check against the committed rows.  *)
(* overlapped records that the other call was in progress at that moment.  *)
CStart(p, call) ==
    /\ procs[p].pc = "idle"
    /\ LET g == PreUnit(db, procs[p].active, call)
           o == \E q \in Procs \ {p} : procs[q].pc \notin {"idle", "done"}
       IN  IF g.error # "" \/ g.propagated # ""
           THEN procs' = [procs EXCEPT ![p].pc = "done", ![p].call = call,
                                       ![p].result =
                                           IF g.propagated # ""
                                           THEN Propagates(g.propagated)
                                           ELSE Failure(g.error),
                                       ![p].active = g.active,
                                       ![p].overlapped = o]
           ELSE procs' = [procs EXCEPT ![p].pc = "begin", ![p].call = call,
                                       ![p].active = g.active,
                                       ![p].overlapped = o]
    /\ UNCHANGED <<db, session_active, pre, last, used, ncalls, writer>>

(* with db.session.begin()                                                 *)
CBegin(p) ==
    /\ procs[p].pc = "begin"
    /\ IF BeginRaises(procs[p].active)
       THEN Finish(p, Failure(ErrorMessage(ExcInvalidRequest)),
                   procs[p].active)
       ELSE procs' = [procs EXCEPT ![p].pc = "header", ![p].active = TRUE]
    /\ UNCHANGED <<db, session_active, pre, last, used, ncalls, writer>>

(* _create_header: the INSERT takes the write lock; the unit then works on *)
(* the committed rows plus its own.                                        *)
CHeader(p) ==
    /\ procs[p].pc = "header"
    /\ writer = 0
    /\ writer' = p
    /\ procs' = [procs EXCEPT ![p].pc = "lines", ![p].line = 1,
                              ![p].work = CreateHeader(db, procs[p].call)]
    /\ UNCHANGED <<db, session_active, pre, last, used, ncalls>>

(* The other unit holds the lock beyond the busy timeout: OperationalError *)
(* caught by "except Exception".                                           *)
CHeaderBusy(p) ==
    /\ procs[p].pc = "header"
    /\ writer \notin {0, p}
    /\ Finish(p, Failure(ErrorMessage(ExcOperational)), FALSE)
    /\ UNCHANGED <<db, session_active, pre, last, used, ncalls, writer>>

(* One row of the loop; a TransactionError rolls the unit back.            *)
CLine(p) ==
    /\ procs[p].pc = "lines"
    /\ procs[p].line <= Len(procs[p].call.items)
    /\ LET r == PostLine(procs[p].work, procs[p].call,
                         Len(procs[p].work.txns), 1, procs[p].line)
       IN  IF r.err # ""
           THEN /\ Finish(p, Failure(ErrorMessage(r.err)), FALSE)
                /\ writer' = 0
           ELSE /\ procs' = [procs EXCEPT ![p].work = r.db,
                                          ![p].line = @ + 1]
                /\ UNCHANGED writer
    /\ UNCHANGED <<db, session_active, pre, last, used, ncalls>>

(* The with block ends: commit, the lock is released.                      *)
CCommit(p) ==
    /\ procs[p].pc = "lines"
    /\ procs[p].line > Len(procs[p].call.items)
    /\ db' = Commit(db, procs[p].work)
    /\ writer' = 0
    /\ Finish(p, Success(db, procs[p].work), FALSE)
    /\ UNCHANGED <<session_active, pre, last, used, ncalls>>

NextConc ==
    \E p \in Procs :
        \/ \E call \in ConcCalls : CStart(p, call)
        \/ CBegin(p)
        \/ CHeader(p)
        \/ CHeaderBusy(p)
        \/ CLine(p)
        \/ CCommit(p)

SpecConc == InitConc /\ [][NextConc]_vars

---------------------------------------------------------------------------
(* Vocabulary of the properties.  The order of lots and the sums are       *)
(* written out here from the data model, independently of the operators    *)
(* above.                                                                  *)

IsCall == last.call.ttype # "none"

LastOk == IsCall /\ last.result.ok

LastFailed == IsCall /\ ~last.result.ok

LastItems == last.call.items

LastW == last.call.warehouse_id

(* The working database of the latest call after its first n rows.         *)
LineDb(n) ==
    PostLines(CreateHeader(pre, last.call), last.call, Len(pre.txns) + 1,
              last.adv, n).db

StockOf(d, p, w) ==
    IF CopiesIn(<<p, w>>, d.stock_rows) > 0 THEN d.stock_qty[<<p, w>>] ELSE 0

PairLots(d, p, w) ==
    {i \in 1..Len(d.lots) :
        d.lots[i].product_id = p /\ d.lots[i].warehouse_id = w}

(* (received_at, id) ascending                                             *)
Precedes(d, i, j) ==
    \/ d.lots[i].received_at < d.lots[j].received_at
    \/ d.lots[i].received_at = d.lots[j].received_at /\ i < j

RECURSIVE LotSum(_, _, _)
LotSum(lots, p, w) ==
    IF lots = << >> THEN 0
    ELSE (IF Head(lots).product_id = p /\ Head(lots).warehouse_id = w
          THEN Head(lots).quantity_remaining ELSE 0)
         + LotSum(Tail(lots), p, w)

RECURSIVE AllocQty(_, _)
AllocQty(allocs, item_id) ==
    IF allocs = << >> THEN 0
    ELSE (IF Head(allocs).transaction_item_id = item_id
          THEN Head(allocs).quantity ELSE 0)
         + AllocQty(Tail(allocs), item_id)

RECURSIVE AllocCost(_, _)
AllocCost(allocs, item_id) ==
    IF allocs = << >> THEN 0
    ELSE (IF Head(allocs).transaction_item_id = item_id
          THEN Head(allocs).quantity * Head(allocs).unit_cost ELSE 0)
         + AllocCost(Tail(allocs), item_id)

AllocsOf(d, item_id) ==
    SelectSeq(d.allocs, LAMBDA a : a.transaction_item_id = item_id)

AllPositive(items) == \A i \in 1..Len(items) : items[i].quantity > 0

AllNumbers(items) == \A i \in 1..Len(items) : items[i].malformed = ""

Oversold(d, items, w) ==
    \E pid \in RequestedIds(items) : Requested(items, pid) > StockOf(d, pid, w)

---------------------------------------------------------------------------
(* C1. All-or-nothing posting: whenever create_transaction returns an      *)
(* error, the database is the database before the call: no new             *)
(* Transaction, TransactionItem, Stock row, PurchaseLot, LotAllocation or  *)
(* StockMovement, and no changed Stock.quantity or quantity_remaining.     *)
C1_AllOrNothing == LastFailed => db = pre

(* A purchase whose second row names no product, after a first row that    *)
(* was applied, on a database that already holds lots.                     *)
C1_Witness ==
    /\ LastFailed
    /\ last.result.error = ErrProductNotFound
    /\ Len(LastItems) >= 2
    /\ LastItems[1] \in ValidRows
    /\ Len(pre.lots) > 0
    /\ LineDb(1) # CreateHeader(pre, last.call)

(* C2. Aggregate oversell rejection: a Sale with allow_negative = false in *)
(* which some product's summed quantity exceeds its Stock.quantity (a      *)
(* missing row counting as 0) is rejected with an error and changes        *)
(* nothing; when every value, the warehouse id included, is a number and   *)
(* every quantity is positive the error is the pre-check's shortage        *)
(* report.                                                                 *)
C2_AggregateOversell ==
    (/\ IsCall
     /\ last.call.ttype = "Sale"
     /\ ~last.call.allow_negative
     /\ Oversold(pre, LastItems, LastW))
    => /\ ~last.result.ok
       /\ db = pre
       /\ (/\ AllPositive(LastItems)
           /\ AllNumbers(LastItems)
           /\ last.call.malformed = "")
            => last.result.error = ErrShortage

(* Two rows of one product, each within the stock, together above it.      *)
C2_Witness ==
    /\ IsCall
    /\ last.call.ttype = "Sale"
    /\ ~last.call.allow_negative
    /\ Len(LastItems) = 2
    /\ LastItems[1].product_id = LastItems[2].product_id
    /\ LastItems[1].product_id \in Products
    /\ \A i \in 1..2 :
         /\ LastItems[i].quantity > 0
         /\ LastItems[i].quantity <= StockOf(pre, LastItems[i].product_id, LastW)
    /\ Oversold(pre, LastItems, LastW)
    /\ ~last.result.ok
    /\ db = pre

(* C3. Non-negative stock: as long as every call so far used               *)
(* allow_negative = false, Stock.quantity >= 0 for every pair.             *)
C3_NonNegativeStock ==
    "allow_negative" \notin used => \A pw \in Pairs : db.stock_qty[pw] >= 0

(* A sale attempted against positive stock, no call having allowed         *)
(* negative stock.                                                         *)
C3_Witness ==
    /\ "allow_negative" \notin used
    /\ last.call.ttype = "Sale"
    /\ AllPositive(LastItems)
    /\ Len(LastItems) > 0
    /\ \E pw \in Pairs : CopiesIn(pw, db.stock_rows) > 0 /\ db.stock_qty[pw] > 0

(* C4. No negative lot: every PurchaseLot has quantity_remaining >= 0 in   *)
(* every reachable state, sales with allow_negative = true included.       *)
C4_NoNegativeLot ==
    \A i \in 1..Len(db.lots) : db.lots[i].quantity_remaining >= 0

(* A sale that allowed negative stock drained a lot and left the stock     *)
(* below zero.                                                             *)
C4_Witness ==
    /\ LastOk
    /\ last.call.ttype = "Sale"
    /\ last.call.allow_negative
    /\ \E i \in 1..Len(db.lots) :
         /\ db.lots[i].quantity_remaining = 0
         /\ db.stock_qty[<<db.lots[i].product_id, db.lots[i].warehouse_id>>] < 0

(* The lots of (p, w) with a positive remainder in d, oldest first by      *)
(* (received_at, id): the n-th of them, 1-based.                           *)
OpenLots(d, p, w) == {i \in PairLots(d, p, w) : d.lots[i].quantity_remaining > 0}

NthOpenLot(d, p, w, n) ==
    CHOOSE i \in OpenLots(d, p, w) :
        Cardinality({j \in OpenLots(d, p, w) : Precedes(d, j, i)}) = n - 1

(* The item a sale row n of the latest call created, and its allocations.  *)
LineItem(n) == Len(LineDb(n - 1).items) + 1

LineAllocs(n) == AllocsOf(LineDb(n), LineItem(n))

(* C5. FIFO order: a sale line consumes the lots of its (product,          *)
(* warehouse) in ascending (received_at, id) order: a lot that precedes a  *)
(* lot the line took from has quantity_remaining = 0; a sale of            *)
(* q <= r1 takes only from the oldest lot; a sale of r1 < q <= r1 + r2     *)
(* drains the oldest lot, takes q - r1 from the second and writes exactly  *)
(* two LotAllocation rows.                                                 *)
C5_FifoOrder ==
    /\ \A k \in 1..Len(db.allocs) :
         LET l2 == db.allocs[k].purchase_lot_id
         IN  \A l1 \in PairLots(db, db.lots[l2].product_id,
                                db.lots[l2].warehouse_id) :
                Precedes(db, l1, l2) => db.lots[l1].quantity_remaining = 0
    /\ (LastOk /\ last.call.ttype = "Sale") =>
         \A n \in 1..Len(LastItems) :
           LET b == LineDb(n - 1)
               a == LineDb(n)
               p == LastItems[n].product_id
               q == LastItems[n].quantity
               open == OpenLots(b, p, LastW)
               o1 == NthOpenLot(b, p, LastW, 1)
               o2 == NthOpenLot(b, p, LastW, 2)
               r1 == b.lots[o1].quantity_remaining
               r2 == b.lots[o2].quantity_remaining
           IN  /\ (open # {} /\ q <= r1) =>
                    /\ Len(LineAllocs(n)) = 1
                    /\ LineAllocs(n)[1].purchase_lot_id = o1
                    /\ LineAllocs(n)[1].quantity = q
                    /\ a.lots[o1].quantity_remaining = r1 - q
                    /\ \A i \in 1..Len(b.lots) : i # o1 => a.lots[i] = b.lots[i]
               /\ (Cardinality(open) >= 2 /\ r1 < q /\ q <= r1 + r2) =>
                    /\ Len(LineAllocs(n)) = 2
                    /\ LineAllocs(n)[1].purchase_lot_id = o1
                    /\ LineAllocs(n)[1].quantity = r1
                    /\ LineAllocs(n)[2].purchase_lot_id = o2
                    /\ LineAllocs(n)[2].quantity = q - r1
                    /\ a.lots[o1].quantity_remaining = 0
                    /\ a.lots[o2].quantity_remaining = r2 - (q - r1)

(* A one-row sale drained the oldest lot and left part of the second.      *)
C5_Witness ==
    /\ LastOk
    /\ last.call.ttype = "Sale"
    /\ Len(LastItems) = 1
    /\ Len(LineAllocs(1)) = 2
    /\ db.lots[LineAllocs(1)[1].purchase_lot_id].quantity_remaining = 0
    /\ db.lots[LineAllocs(1)[2].purchase_lot_id].quantity_remaining > 0
    /\ pre.lots[LineAllocs(1)[1].purchase_lot_id].unit_cost
         # pre.lots[LineAllocs(1)[2].purchase_lot_id].unit_cost

(* Unit cost of the most recently received lot of (p, w), 0 without lots.  *)
NewestLotCost(d, p, w) ==
    IF PairLots(d, p, w) = {} THEN 0
    ELSE LET l == CHOOSE i \in PairLots(d, p, w) :
                     \A j \in PairLots(d, p, w) \ {i} : Precedes(d, j, i)
         IN  d.lots[l].unit_cost

(* C6. Cost and profit of a sale line: for every sale item posted by the   *)
(* latest call, total_price = quantity * unit_price, cost_used = the sum   *)
(* over its LotAllocation rows of quantity * unit_cost (the unit cost of   *)
(* the allocation's lot) plus shortfall * fallback cost, and               *)
(* profit = total_price - cost_used (possibly negative).                   *)
C6_CostAndProfit ==
    (LastOk /\ last.call.ttype = "Sale") =>
      \A n \in 1..Len(LastItems) :
        LET b == LineDb(n - 1)
            p == LastItems[n].product_id
            q == LastItems[n].quantity
            it == db.items[LineItem(n)]
            allocated == AllocQty(db.allocs, LineItem(n))
            fallback == IF last.call.allow_negative
                        THEN NewestLotCost(b, p, LastW)
                        ELSE db.default_purchase_price[p]
            cost == AllocCost(db.allocs, LineItem(n)) + (q - allocated) * fallback
        IN  /\ it.quantity = q
            /\ it.total_price = q * LastItems[n].unit_price
            /\ it.cost_used = Some(cost)
            /\ it.profit = Some(it.total_price - cost)
            /\ \A k \in 1..Len(db.allocs) :
                 db.allocs[k].transaction_item_id = LineItem(n) =>
                   db.allocs[k].unit_cost
                     = db.lots[db.allocs[k].purchase_lot_id].unit_cost

(* A sale line funded by two lots of different cost, sold below cost.      *)
C6_Witness ==
    /\ LastOk
    /\ last.call.ttype = "Sale"
    /\ \E n \in 1..Len(LastItems) :
         /\ Len(AllocsOf(db, LineItem(n))) = 2
         /\ AllocsOf(db, LineItem(n))[1].unit_cost
              # AllocsOf(db, LineItem(n))[2].unit_cost
         /\ db.items[LineItem(n)].profit # Null
         /\ db.items[LineItem(n)].profit[1] < 0

(* C8. Effect of a purchase line: each posted Purchase line of quantity q  *)
(* and unit cost c for product p in warehouse w raises Stock.quantity(p,w) *)
(* by exactly q (from 0 when the row was absent), creates exactly one      *)
(* PurchaseLot of (p, w) with quantity_remaining = q, unit_cost = c and    *)
(* the line's TransactionItem as back-reference, creates a TransactionItem *)
(* with total_price = q * c and cost_used and profit null, and changes no  *)
(* existing lot.                                                           *)
C8_PurchaseLineEffect ==
    (LastOk /\ last.call.ttype = "Purchase") =>
      /\ db = LineDb(Len(LastItems))
      /\ \A n \in 1..Len(LastItems) :
           LET b == LineDb(n - 1)
               a == LineDb(n)
               p == LastItems[n].product_id
               q == LastItems[n].quantity
               c == LastItems[n].unit_price
               lot == a.lots[Len(a.lots)]
               it == a.items[Len(a.items)]
           IN  /\ CopiesIn(<<p, LastW>>, a.stock_rows) = 1
               /\ a.stock_qty[<<p, LastW>>] = StockOf(b, p, LastW) + q
               /\ \A pw \in Pairs \ {<<p, LastW>>} :
                    StockOf(a, pw[1], pw[2]) = StockOf(b, pw[1], pw[2])
               /\ Len(a.lots) = Len(b.lots) + 1
               /\ \A i \in 1..Len(b.lots) : a.lots[i] = b.lots[i]
               /\ lot.product_id = p
               /\ lot.warehouse_id = LastW
               /\ lot.quantity_remaining = q
               /\ lot.unit_cost = c
               /\ lot.transaction_item_id = Len(a.items)
               /\ Len(a.items) = Len(b.items) + 1
               /\ it.transaction_id = Len(pre.txns) + 1
               /\ it.product_id = p
               /\ it.quantity = q
               /\ it.total_price = q * c
               /\ it.cost_used = Null
               /\ it.profit = Null
               /\ a.allocs = b.allocs

(* A two-row purchase of one product posted on a database that already     *)
(* holds a Stock row and a lot of it.                                      *)
C8_Witness ==
    /\ LastOk
    /\ last.call.ttype = "Purchase"
    /\ Len(LastItems) = 2
    /\ LastItems[1].product_id = LastItems[2].product_id
    /\ PairLots(pre, LastItems[1].product_id, LastW) # {}
    /\ Len(db.lots) = Len(pre.lots) + 2

(* C9. Effect of a sale line: each posted Sale line of quantity q for      *)
(* product p in warehouse w lowers Stock.quantity(p,w) by exactly q, and   *)
(* when the lots of (p, w) cover q (no shortfall) their quantity_remaining *)
(* drops by q in total, which is also the sum of the quantities of the     *)
(* LotAllocation rows written for the line.                                *)
C9_SaleLineEffect ==
    (LastOk /\ last.call.ttype = "Sale") =>
      /\ db = LineDb(Len(LastItems))
      /\ \A n \in 1..Len(LastItems) :
           LET b == LineDb(n - 1)
               a == LineDb(n)
               p == LastItems[n].product_id
               q == LastItems[n].quantity
           IN  /\ CopiesIn(<<p, LastW>>, a.stock_rows) = 1
               /\ a.stock_qty[<<p, LastW>>] = StockOf(b, p, LastW) - q
               /\ LotSum(b.lots, p, LastW) >= q =>
                    /\ LotSum(b.lots, p, LastW) - LotSum(a.lots, p, LastW) = q
                    /\ AllocQty(a.allocs, LineItem(n)) = q
                    /\ AllocQty(b.allocs, LineItem(n)) = 0

(* A two-row sale of one product, both rows covered by the lots.           *)
C9_Witness ==
    /\ LastOk
    /\ last.call.ttype = "Sale"
    /\ Len(LastItems) = 2
    /\ LastItems[1].product_id = LastItems[2].product_id
    /\ LotSum(pre.lots, LastItems[1].product_id, LastW)
         >= LastItems[1].quantity + LastItems[2].quantity
    /\ Len(pre.lots) = 2

(* Some row of the latest call has quantity <= 0 or names no product.      *)
HasInvalidLine ==
    \E i \in 1..Len(LastItems) :
        \/ LastItems[i].quantity <= 0
        \/ LastItems[i].product_id \notin pre.products

(* C11. Invalid lines reject the whole call: a Purchase or Sale (whatever   *)
(* allow_negative) with at least one row whose quantity is <= 0 or whose   *)
(* product does not exist never returns success, wherever that row stands  *)
(* among valid rows, and the database is the database before the call.     *)
C11_InvalidLineRejects ==
    (IsCall /\ last.call.ttype \in {"Purchase", "Sale"} /\ HasInvalidLine)
    => /\ ~last.result.ok
       /\ db = pre

(* A sale allowing negative stock whose first row was applied to existing  *)
(* lots and whose second row names no product.                             *)
C11_Witness ==
    /\ IsCall
    /\ last.call.ttype = "Sale"
    /\ last.call.allow_negative
    /\ Len(LastItems) = 2
    /\ LastItems[1] \in ValidRows
    /\ LastItems[2].product_id \notin pre.products
    /\ LastItems[2].quantity > 0
    /\ Len(LineDb(1).allocs) > Len(pre.allocs)
    /\ ~last.result.ok
    /\ db = pre

(* The call is a Sale with allow_negative = false, at least one row, every *)
(* row naming an existing product with quantity > 0, and no product asked  *)
(* for beyond its stock.                                                   *)
SufficientSale ==
    /\ IsCall
    /\ last.call.ttype = "Sale"
    /\ ~last.call.allow_negative
    /\ Len(LastItems) > 0
    /\ \A i \in 1..Len(LastItems) : LastItems[i] \in ValidRows
    /\ ~Oversold(pre, LastItems, LastW)

(* C10. A sufficient sale is posted: a Sale with allow_negative = false    *)
(* whose rows are valid and within the stock returns success with one      *)
(* committed Transaction and one TransactionItem per row, in input order.  *)
C10_SufficientSalePosted ==
    SufficientSale =>
      /\ last.result.ok
      /\ Len(db.txns) = Len(pre.txns) + 1
      /\ last.result.txn = Len(db.txns)
      /\ Len(last.result.items) = Len(LastItems)
      /\ \A i \in 1..Len(LastItems) :
           /\ db.items[last.result.items[i]].product_id = LastItems[i].product_id
           /\ db.items[last.result.items[i]].quantity = LastItems[i].quantity

(* C12. Exactly one Stock row per pair: in every reachable state, the      *)
(* working state of a unit of work in progress included, and also when two *)
(* calls running at the same time touch a pair that has no Stock row yet,  *)
(* no (product, warehouse) has more than one Stock row; and                *)
(* _get_or_create_stock leaves the tables alone when the pair has a row,   *)
(* and otherwise adds exactly one row of quantity 0 and nothing else.      *)
C12_OneStockRowPerPair ==
    /\ \A pw \in Pairs : CopiesIn(pw, db.stock_rows) <= 1
    /\ \A p \in Procs :
         procs[p].pc = "lines" =>
           \A pw \in Pairs : CopiesIn(pw, procs[p].work.stock_rows) <= 1
    /\ \A pw \in Pairs :
         LET g == GetOrCreateStock(db, pw[1], pw[2])
         IN  /\ CopiesIn(pw, db.stock_rows) > 0 => g = db
             /\ CopiesIn(pw, db.stock_rows) = 0 =>
                  /\ CopiesIn(pw, g.stock_rows) = 1
                  /\ g.stock_qty[pw] = 0
                  /\ \A o \in Pairs \ {pw} :
                       /\ CopiesIn(o, g.stock_rows) = CopiesIn(o, db.stock_rows)
                       /\ g.stock_qty[o] = db.stock_qty[o]
                  /\ [g EXCEPT !.stock_rows = db.stock_rows,
                               !.stock_qty = db.stock_qty] = db

(* Two calls on product 1, the second made while the first was in          *)
(* progress, both posted, starting without a Stock row of the pair.        *)
C12_Witness ==
    /\ CopiesIn(<<1, 1>>, pre.stock_rows) = 0
    /\ CopiesIn(<<1, 1>>, db.stock_rows) = 1
    /\ \A p \in Procs :
         /\ procs[p].pc = "done"
         /\ procs[p].result.ok
         /\ \E i \in 1..Len(procs[p].call.items) :
              procs[p].call.items[i].product_id = 1
    /\ \E p \in Procs : procs[p].overlapped

(* C13. Stock is mutated only by the Transaction Poster: among            *)
(* create_transaction, product add, product edit, product delete and       *)
(* warehouse delete, only create_transaction changes the quantity of a     *)
(* Stock row.                                                              *)
C13_StockOnlyByPoster ==
    last.op # "create_transaction" =>
      \A pw \in Pairs : StockOf(db, pw[1], pw[2]) = StockOf(pre, pw[1], pw[2])

(* C14. Legacy quantity mirror: a posted Purchase line of quantity q       *)
(* raises the cached Product.quantity of its product by q and a posted     *)
(* Sale line lowers it by q, so a posting changes Product.quantity by the  *)
(* same amount as the sum of the product's Stock rows.                     *)
C14_LegacyQuantityMirror ==
    LastOk =>
      \A p \in ProductIds :
        db.product_quantity[p] - pre.product_quantity[p]
          = StockSum(db, p, Warehouses) - StockSum(pre, p, Warehouses)

(* The first row of the latest call that is not a valid row of an existing *)
(* product is one with a value that is not a number.                       *)
FirstOffenderUnparsed ==
    \E k \in 1..Len(LastItems) :
        /\ LastItems[k].malformed # ""
        /\ \A j \in 1..(k - 1) :
             /\ LastItems[j] \in ValidRows
             /\ LastItems[j].product_id \in pre.products

(* C15. Non-leaking failure: an exception other than TransactionError      *)
(* raised inside the unit of work (the session refusing to begin, a row    *)
(* whose product id or price is not a number) rolls the whole unit back    *)
(* and create_transaction returns the fixed generic message; the text of   *)
(* the exception is never returned.                                        *)
C15_NonLeakingFailure ==
    IsCall =>
      /\ last.result.error
           \notin {ExcValueError, ExcInvalidRequest, ExcOperational}
      /\ last.raised \notin TransactionErrors \cup {""} =>
           /\ ~last.result.ok
           /\ last.result.error = ErrGeneric
           /\ db = pre
      /\ (last.call.ttype = "Purchase" /\ FirstOffenderUnparsed) =>
           /\ ~last.result.ok
           /\ last.result.error = ErrGeneric
           /\ db = pre

(* A purchase whose first row was applied and whose second row has a       *)
(* unit_price that is not a number.                                        *)
C15_Witness ==
    /\ LastFailed
    /\ last.call.ttype = "Purchase"
    /\ last.raised = ExcValueError
    /\ Len(LastItems) = 2
    /\ LastItems[1] \in ValidRows
    /\ LastItems[2].malformed = "unit_price"
    /\ Len(LineDb(1).lots) = Len(pre.lots) + 1
    /\ last.result.error = ErrGeneric
    /\ db = pre

(* C16. Allocation log shape: no two LotAllocation rows share a            *)
(* (transaction_item_id, purchase_lot_id) pair; every LotAllocation        *)
(* belongs to a TransactionItem of a Sale transaction (purchase lines have *)
(* none); its lot is of the product of the sale line and of the warehouse  *)
(* of the sale; its quantity is > 0.                                       *)
C16_AllocationShape ==
    \A k \in 1..Len(db.allocs) :
      LET a == db.allocs[k]
          it == db.items[a.transaction_item_id]
          lot == db.lots[a.purchase_lot_id]
      IN  /\ a.transaction_item_id \in 1..Len(db.items)
          /\ a.purchase_lot_id \in 1..Len(db.lots)
          /\ db.txns[it.transaction_id].type = "Sale"
          /\ lot.product_id = it.product_id
          /\ lot.warehouse_id = db.txns[it.transaction_id].warehouse_id
          /\ a.quantity > 0
          /\ \A j \in 1..Len(db.allocs) :
               (/\ db.allocs[j].transaction_item_id = a.transaction_item_id
                /\ db.allocs[j].purchase_lot_id = a.purchase_lot_id) => j = k

(* Two sale lines took from one lot, the first leaving part of it, next to *)
(* a purchase line without allocations.                                    *)
C16_Witness ==
    /\ Len(db.allocs) = 2
    /\ db.allocs[1].purchase_lot_id = db.allocs[2].purchase_lot_id
    /\ db.allocs[1].transaction_item_id # db.allocs[2].transaction_item_id
    /\ \E i \in 1..Len(db.items) :
         /\ db.txns[db.items[i].transaction_id].type = "Purchase"
         /\ AllocQty(db.allocs, i) = 0

(* C17. The stock movement log is append-only and complete: every          *)
(* committed TransactionItem has exactly one StockMovement, IN for a       *)
(* purchase line and OUT for a sale line, with the quantity (> 0) and      *)
(* product of the line and the warehouse of the transaction; no operation  *)
(* changes or removes an existing StockMovement; a failed posting adds     *)
(* none.                                                                   *)
C17_MovementLog ==
    /\ \A i \in 1..Len(db.items) :
         LET it == db.items[i]
             txn == db.txns[it.transaction_id]
             ms == {k \in 1..Len(db.moves) :
                       db.moves[k].transaction_item_id = i}
         IN  /\ Cardinality(ms) = 1
             /\ \A k \in ms :
                  /\ db.moves[k].direction
                       = (IF txn.type = "Purchase" THEN "IN" ELSE "OUT")
                  /\ db.moves[k].quantity = it.quantity
                  /\ db.moves[k].quantity > 0
                  /\ db.moves[k].product_id = it.product_id
                  /\ db.moves[k].warehouse_id = txn.warehouse_id
                  /\ db.moves[k].transaction_id = it.transaction_id
    /\ Len(db.moves) = Len(db.items)
    /\ Len(db.moves) >= Len(pre.moves)
    /\ \A k \in 1..Len(pre.moves) : db.moves[k] = pre.moves[k]
    /\ LastFailed => db.moves = pre.moves

(* A two-row sale posted after a purchase: two OUT movements follow the    *)
(* IN movements already there.                                             *)
C17_Witness ==
    /\ LastOk
    /\ last.call.ttype = "Sale"
    /\ Len(pre.moves) > 0
    /\ Len(db.moves) = Len(pre.moves) + 2
    /\ pre.moves[1].direction = "IN"
    /\ db.moves[Len(db.moves)].direction = "OUT"

(* Sum of quantity_remaining * unit_cost over the lots of (p, w).          *)
RECURSIVE LotValue(_, _, _)
LotValue(lots, p, w) ==
    IF lots = << >> THEN 0
    ELSE (IF Head(lots).product_id = p /\ Head(lots).warehouse_id = w
          THEN Head(lots).quantity_remaining * Head(lots).unit_cost ELSE 0)
         + LotValue(Tail(lots), p, w)

(* C18. Shortfall pricing with allow_negative = true: a posted sale line   *)
(* asking for more than the lots of its (product, warehouse) hold leaves   *)
(* every such lot at 0, and its cost_used is the value of what the lots    *)
(* held plus the uncovered quantity at the unit cost of the most recently  *)
(* received lot of the pair (greatest (received_at, id), drained lots      *)
(* included), or at 0 when the pair has no lot.                            *)
C18_ShortfallLastLotCost ==
    (LastOk /\ last.call.ttype = "Sale" /\ last.call.allow_negative) =>
      \A n \in 1..Len(LastItems) :
        LET b == LineDb(n - 1)
            a == LineDb(n)
            p == LastItems[n].product_id
            q == LastItems[n].quantity
            held == LotSum(b.lots, p, LastW)
        IN  q > held =>
              /\ \A l \in PairLots(a, p, LastW) :
                   a.lots[l].quantity_remaining = 0
              /\ a.items[LineItem(n)].cost_used
                   = Some(LotValue(b.lots, p, LastW)
                          + (q - held) * NewestLotCost(b, p, LastW))
              /\ db.items[LineItem(n)].cost_used
                   = a.items[LineItem(n)].cost_used
              /\ PairLots(b, p, LastW) = {} =>
                   a.items[LineItem(n)].cost_used = Some(0)

(* A sale line took what the newer of two lots of different cost still     *)
(* held, the older one being drained, and went beyond it.                  *)
C18_Witness ==
    /\ LastOk
    /\ last.call.ttype = "Sale"
    /\ last.call.allow_negative
    /\ \E n \in 1..Len(LastItems) :
         LET b == LineDb(n - 1)
             p == LastItems[n].product_id
         IN  /\ LastItems[n].quantity > LotSum(b.lots, p, LastW)
             /\ LotSum(b.lots, p, LastW) > 0
             /\ \E i, j \in PairLots(b, p, LastW) :
                  /\ Precedes(b, i, j)
                  /\ b.lots[i].quantity_remaining = 0
                  /\ b.lots[j].quantity_remaining > 0
                  /\ b.lots[i].unit_cost # b.lots[j].unit_cost

(* C19. Shortfall pricing with allow_negative = false: a sale with         *)
(* allow_negative = false that passes the stock checks while the lots of   *)
(* some line's (product, warehouse) hold less than the line asks for       *)
(* (stock raised by a product add or edit without a lot) is posted; every  *)
(* such lot ends at 0, Stock goes down by the full quantity, and the       *)
(* uncovered quantity enters cost_used at the product's                    *)
(* default_purchase_price.                                                 *)
C19_ShortfallDefaultPrice ==
    (/\ SufficientSale
     /\ \E n \in 1..Len(LastItems) :
          LotSum(LineDb(n - 1).lots, LastItems[n].product_id, LastW)
            < LastItems[n].quantity)
    => /\ last.result.ok
       /\ db = LineDb(Len(LastItems))
       /\ \A n \in 1..Len(LastItems) :
            LET b == LineDb(n - 1)
                a == LineDb(n)
                p == LastItems[n].product_id
                q == LastItems[n].quantity
                held == LotSum(b.lots, p, LastW)
            IN  q > held =>
                  /\ \A l \in PairLots(a, p, LastW) :
                       a.lots[l].quantity_remaining = 0
                  /\ StockOf(a, p, LastW) = StockOf(b, p, LastW) - q
                  /\ a.items[LineItem(n)].cost_used
                       = Some(LotValue(b.lots, p, LastW)
                              + (q - held) * pre.default_purchase_price[p])

(* What the loop of the latest call raises within its first n rows, when   *)
(* run on the database the call started from.                              *)
LineErr(n) ==
    PostLines(CreateHeader(pre, last.call), last.call, Len(pre.txns) + 1,
              last.adv, n).err

(* The latest call is a Sale with allow_negative = false that the          *)
(* pre-check lets through: product ids and quantities are numbers, every   *)
(* quantity is > 0, there is a row, and no product is asked for beyond     *)
(* its stock.                                                              *)
PrecheckedSale ==
    /\ IsCall
    /\ last.call.ttype = "Sale"
    /\ ~last.call.allow_negative
    /\ Len(LastItems) > 0
    /\ \A i \in 1..Len(LastItems) :
         /\ LastItems[i].malformed \notin {"product_id", "quantity"}
         /\ LastItems[i].quantity > 0
    /\ ~Oversold(pre, LastItems, LastW)

(* C20. The shortfall path is unreachable under pre-checked sales: in a    *)
(* run made only of create_transaction calls with allow_negative = false,  *)
(* one at a time from the empty inventory, the stock of every pair equals  *)
(* what its lots hold, every sale line in the database is fully covered by *)
(* its allocations, and the rows of a sale that passed the pre-check, run  *)
(* on the database the call started from, are each fully covered by the    *)
(* lots: the shortfall branch of the FIFO consumption is not executed.     *)
C20_NoShortfallWhenPrechecked ==
    used = {} =>
      /\ \A pw \in Pairs :
           StockOf(db, pw[1], pw[2]) = LotSum(db.lots, pw[1], pw[2])
      /\ \A i \in 1..Len(db.items) :
           db.txns[db.items[i].transaction_id].type = "Sale" =>
             AllocQty(db.allocs, i) = db.items[i].quantity
      /\ PrecheckedSale =>
           \A n \in 1..Len(LastItems) :
             LineErr(n) = "" =>
               /\ AllocQty(LineDb(n).allocs, LineItem(n))
                    = LastItems[n].quantity
               /\ LotSum(LineDb(n - 1).lots, LastItems[n].product_id, LastW)
                    >= LastItems[n].quantity

(* A two-row sale of one product asking for exactly the stock, held by two *)
(* lots, after calls with allow_negative = false only.                     *)
C20_Witness ==
    /\ used = {}
    /\ PrecheckedSale
    /\ Len(LastItems) = 2
    /\ LineErr(2) = ""
    /\ LastItems[1].product_id = LastItems[2].product_id
    /\ Cardinality(OpenLots(pre, LastItems[1].product_id, LastW)) = 2
    /\ LastItems[1].quantity + LastItems[2].quantity
         = StockOf(pre, LastItems[1].product_id, LastW)
    /\ Len(LineDb(2).allocs) > Len(pre.allocs)

(* C21. Stock equals lot remainders: in every state reached from the empty *)
(* inventory by create_transaction calls with allow_negative = false made  *)
(* one at a time, with no product-route stock edit, the Stock.quantity of  *)
(* every (product, warehouse) pair is the sum of quantity_remaining over   *)
(* the PurchaseLots of the pair; the same holds after each row the loop of *)
(* a Purchase, or of a Sale that passed the pre-check, goes through.       *)
C21_StockEqualsLots ==
    used = {} =>
      /\ \A pw \in Pairs :
           StockOf(db, pw[1], pw[2]) = LotSum(db.lots, pw[1], pw[2])
      /\ (IsCall /\ (last.call.ttype = "Purchase" \/ PrecheckedSale)) =>
           \A n \in 1..Len(LastItems) :
             LineErr(n) = "" =>
               \A pw \in Pairs :
                 StockOf(LineDb(n), pw[1], pw[2])
                   = LotSum(LineDb(n).lots, pw[1], pw[2])

(* A sale of one unit out of a lot of two, pre-checked, after a purchase   *)
(* that left lots for both products: stock and lots both go from 2 to 1.   *)
C21_Witness ==
    /\ used = {}
    /\ PrecheckedSale
    /\ Len(LastItems) = 1
    /\ LineErr(1) = ""
    /\ LastItems[1].quantity = 1
    /\ StockOf(pre, LastItems[1].product_id, LastW) = 2
    /\ StockOf(LineDb(1), LastItems[1].product_id, LastW) = 1
    /\ LotSum(LineDb(1).lots, LastItems[1].product_id, LastW) = 1
    /\ \A p \in Products : PairLots(pre, p, LastW) # {}

(* The units the LotAllocation rows of allocs draw from lot l.             *)
RECURSIVE LotAllocated(_, _)
LotAllocated(allocs, l) ==
    IF allocs = << >> THEN 0
    ELSE (IF Head(allocs).purchase_lot_id = l
          THEN Head(allocs).quantity ELSE 0)
         + LotAllocated(Tail(allocs), l)

(* Every lot of d still accounts for the quantity of the purchase line     *)
(* that created it.                                                        *)
LotsAudit(d) ==
    \A l \in 1..Len(d.lots) :
      d.lots[l].quantity_remaining + LotAllocated(d.allocs, l)
        = d.items[d.lots[l].transaction_item_id].quantity

(* C22. Lot audit identity: in every reachable state and for every         *)
(* PurchaseLot, quantity_remaining plus the quantities of the              *)
(* LotAllocation rows that reference the lot is the quantity of the        *)
(* purchase TransactionItem that created it; the same holds after each row *)
(* the loop of the latest call goes through (a call whose warehouse id is  *)
(* a number: the loop is run for no other).                                *)
C22_LotAuditIdentity ==
    /\ LotsAudit(db)
    /\ (IsCall /\ last.call.malformed = "") =>
         \A n \in 1..Len(LastItems) : LineErr(n) = "" => LotsAudit(LineDb(n))

(* A committed sale that drew on two lots of its pair, draining the first  *)
(* and leaving part of the second.                                         *)
C22_Witness ==
    /\ LastOk
    /\ last.call.ttype = "Sale"
    /\ \E l1, l2 \in 1..Len(db.lots) :
         /\ l1 # l2
         /\ db.lots[l1].quantity_remaining = 0
         /\ LotAllocated(db.allocs, l1) > 0
         /\ db.lots[l2].quantity_remaining > 0
         /\ LotAllocated(db.allocs, l2) > 0

(* Lot l is the same receipt in b as in a: product, warehouse, unit cost,  *)
(* time of receipt and purchase line.                                      *)
SameReceipt(a, b, l) ==
    /\ b.lots[l].product_id = a.lots[l].product_id
    /\ b.lots[l].warehouse_id = a.lots[l].warehouse_id
    /\ b.lots[l].unit_cost = a.lots[l].unit_cost
    /\ b.lots[l].received_at = a.lots[l].received_at
    /\ b.lots[l].transaction_item_id = a.lots[l].transaction_item_id

(* From a to b every lot of a is kept as the same receipt and holds no     *)
(* more than it did.                                                       *)
LotsOnlyShrink(a, b) ==
    /\ Len(b.lots) >= Len(a.lots)
    /\ \A l \in 1..Len(a.lots) :
         /\ SameReceipt(a, b, l)
         /\ b.lots[l].quantity_remaining <= a.lots[l].quantity_remaining

(* C23. Lots only shrink: whatever the latest operation was (a             *)
(* create_transaction call or a product or warehouse request), every       *)
(* PurchaseLot that existed before it still exists with the same           *)
(* unit_cost, received_at, product and warehouse and with no larger        *)
(* quantity_remaining; a lot is changed only by a Sale posting, and the    *)
(* rows of a Purchase leave every existing lot as it was.  The same holds  *)
(* of each row the loop of the latest call goes through.                   *)
C23_LotsOnlyShrink ==
    /\ LotsOnlyShrink(pre, db)
    /\ (\E l \in 1..Len(pre.lots) : db.lots[l] # pre.lots[l]) =>
         LastOk /\ last.call.ttype = "Sale"
    /\ (IsCall /\ last.call.malformed = "") =>
         \A n \in 1..Len(LastItems) :
           LineErr(n) = "" =>
             /\ LotsOnlyShrink(LineDb(n - 1), LineDb(n))
             /\ last.call.ttype = "Purchase" =>
                  \A l \in 1..Len(pre.lots) : LineDb(n).lots[l] = pre.lots[l]

(* A committed sale that lowered one lot and left another lot untouched.   *)
C23_Witness ==
    /\ LastOk
    /\ last.call.ttype = "Sale"
    /\ Len(pre.lots) = 2
    /\ db.lots[1].quantity_remaining < pre.lots[1].quantity_remaining
    /\ db.lots[2] = pre.lots[2]
    /\ db.lots[2].quantity_remaining > 0

(* C24. The second check is redundant without concurrency: when a Sale     *)
(* with allow_negative = false passes the aggregate pre-check and its rows *)
(* are posted on the database the pre-check read, every row finds at least *)
(* its quantity in the Stock row when its turn comes, rows of a product    *)
(* already sold by earlier rows of the call included, so no row is         *)
(* refused for "Not enough stock to complete sale."; and no call made      *)
(* while nothing else runs ends with that message.                         *)
C24_RecheckRedundant ==
    /\ IsCall => last.result.error # ErrLineShortage
    /\ PrecheckedSale =>
         \A n \in 1..Len(LastItems) :
           /\ LineErr(n) # ErrLineShortage
           /\ (LineErr(n - 1) = "" /\ LastItems[n].malformed = "") =>
                /\ StockOf(LineDb(n - 1), LastItems[n].product_id, LastW)
                     >= LastItems[n].quantity
                /\ LineErr(n) = ""

(* Two rows of one unit each of the same product against a stock of 2 set  *)
(* by the product form: the second row is checked against a stock of 1.    *)
C24_Witness ==
    /\ PrecheckedSale
    /\ Len(LastItems) = 2
    /\ LastItems[1].product_id = LastItems[2].product_id
    /\ LastItems[1].quantity = 1
    /\ LastItems[2].quantity = 1
    /\ StockOf(pre, LastItems[1].product_id, LastW) = 2
    /\ StockOf(LineDb(1), LastItems[1].product_id, LastW) = 1
    /\ LineErr(2) = ""
    /\ StockOf(LineDb(2), LastItems[1].product_id, LastW) = 0

(* The latest call is a Sale with allow_negative = true whose rows all     *)
(* name existing products with a quantity > 0.                             *)
OverrideSale ==
    /\ IsCall
    /\ last.call.ttype = "Sale"
    /\ last.call.allow_negative
    /\ Len(LastItems) > 0
    /\ \A i \in 1..Len(LastItems) :
         /\ LastItems[i].malformed = ""
         /\ LastItems[i].quantity > 0
         /\ LastItems[i].product_id \in pre.products

(* C25. Allow-negative override: a Sale with allow_negative = true whose   *)
(* rows all name existing products with quantity > 0 succeeds whatever the *)
(* stock, lowers the Stock.quantity of each product by exactly the         *)
(* quantity sold, below 0 if need be and on a Stock row created at 0 when  *)
(* there was none, and leaves quantity_remaining >= 0 in every lot.        *)
C25_AllowNegativeOverride ==
    OverrideSale =>
      /\ LastOk
      /\ \A p \in RequestedIds(LastItems) :
           /\ BagIn(<<p, LastW>>, db.stock_rows)
           /\ db.stock_qty[<<p, LastW>>]
                = StockOf(pre, p, LastW) - Requested(LastItems, p)
      /\ \A l \in 1..Len(db.lots) : db.lots[l].quantity_remaining >= 0

(* The products named by the first n rows of the latest call.              *)
LineProducts(n) == {LastItems[i].product_id : i \in 1..n}

(* From a to b nothing is written outside the pairs (p, w) with p in P:    *)
(* the Stock rows and lots of other pairs are as they were, new lots and   *)
(* new allocations belong to those pairs, and the Transactions,            *)
(* TransactionItems and LotAllocations of a are all kept as they were.     *)
ScopedTo(a, b, P, w) ==
    /\ \A pw \in Pairs :
         (pw[1] \notin P \/ pw[2] # w) =>
           /\ CopiesIn(pw, b.stock_rows) = CopiesIn(pw, a.stock_rows)
           /\ b.stock_qty[pw] = a.stock_qty[pw]
    /\ Len(b.lots) >= Len(a.lots)
    /\ \A l \in 1..Len(b.lots) :
         (b.lots[l].product_id \notin P \/ b.lots[l].warehouse_id # w) =>
           l <= Len(a.lots) /\ b.lots[l] = a.lots[l]
    /\ Len(b.allocs) >= Len(a.allocs)
    /\ \A k \in 1..Len(b.allocs) :
         IF k <= Len(a.allocs) THEN b.allocs[k] = a.allocs[k]
         ELSE /\ b.lots[b.allocs[k].purchase_lot_id].product_id \in P
              /\ b.lots[b.allocs[k].purchase_lot_id].warehouse_id = w
    /\ Len(b.txns) >= Len(a.txns)
    /\ \A t \in 1..Len(a.txns) : b.txns[t] = a.txns[t]
    /\ Len(b.items) >= Len(a.items)
    /\ \A i \in 1..Len(a.items) : b.items[i] = a.items[i]

(* C26. Posting is scoped to its own pairs: a create_transaction call for  *)
(* warehouse w with rows over the products P changes Stock rows and        *)
(* PurchaseLots only for the pairs (p, w) with p in P; the Stock           *)
(* quantities, lots and allocations of every other product and of every    *)
(* other warehouse are unchanged, and the Transactions, TransactionItems   *)
(* and LotAllocations that existed before the call are not modified.  The  *)
(* same holds of the first n rows of the call, for the products they name. *)
C26_ScopedToOwnPairs ==
    IsCall =>
      /\ ScopedTo(pre, db, LineProducts(Len(LastItems)), LastW)
      /\ last.call.malformed = "" =>
           \A n \in 1..Len(LastItems) :
             LineErr(n) = "" =>
               ScopedTo(pre, LineDb(n), LineProducts(n), LastW)

(* A committed sale of product 1 in warehouse 1, lowering its stock there, *)
(* while warehouse 2 holds stock and a lot of the same product.            *)
C26_Witness ==
    /\ LastOk
    /\ last.call.ttype = "Sale"
    /\ LastW = 1
    /\ LineProducts(Len(LastItems)) = {1}
    /\ StockOf(db, 1, 1) < StockOf(pre, 1, 1)
    /\ StockOf(pre, 1, 2) > 0
    /\ PairLots(pre, 1, 2) # {}
    /\ StockOf(db, 1, 2) = StockOf(pre, 1, 2)
    /\ \A l \in PairLots(pre, 1, 2) : db.lots[l] = pre.lots[l]

(* No lot of d is allocated beyond the quantity of the purchase line that  *)
(* created it, and what is allocated is what the lot no longer holds.      *)
NoDoubleConsumption(d) ==
    \A l \in 1..Len(d.lots) :
      LET original == d.items[d.lots[l].transaction_item_id].quantity
      IN  /\ LotAllocated(d.allocs, l) <= original
          /\ LotAllocated(d.allocs, l)
               = original - d.lots[l].quantity_remaining

C28_Total ==
    IsCall =>
      /\ last.result.propagated = ""
      /\ last.result.ok \/ last.result.error # ""

(* C29. No empty transaction: every Transaction header in the database has *)
(* at least one TransactionItem, the items of a header are all created by  *)
(* the call that created it (a call adds items to its own header only),    *)
(* and a call with an empty items list commits nothing.                    *)
C29_NoEmptyTransaction ==
    /\ \A t \in 1..Len(db.txns) :
         \E i \in 1..Len(db.items) : db.items[i].transaction_id = t
    /\ IsCall =>
         /\ \A i \in 1..Len(db.items) :
              i > Len(pre.items) => db.items[i].transaction_id > Len(pre.txns)
         /\ LastItems = << >> => db = pre

(* The latest operation is a POST to /transactions by a member of the      *)
(* organization whose form passes the validator and whose warehouse,       *)
(* partner and products belong to the organization.                        *)
AcceptedForm ==
    /\ last.op = "transactions"
    /\ ~last.form.developer
    /\ last.form.ttype \in {"Purchase", "Sale"}
    /\ last.form.warehouse_id \in pre.warehouses
    /\ last.form.partner_id = 1
    /\ Len(last.form.items) > 0
    /\ \A i \in 1..Len(last.form.items) :
         /\ last.form.items[i].malformed = ""
         /\ last.form.items[i].quantity > 0
         /\ last.form.items[i].unit_price >= 0
         /\ last.form.items[i].product_id \in pre.products

(* C30. The web layer reaches the Poster: a POST to /transactions by a     *)
(* non-Developer user that passes the form validator and the ownership     *)
(* checks of warehouse, partner and every product calls create_transaction *)
(* with the organization's owner id among its arguments: the request ends  *)
(* with the transaction posted or with the Poster's own error message, no  *)
(* exception leaves the handler, and the StockMovements of a posted        *)
(* transaction carry the owner id.                                         *)
C30_WebReachesPoster ==
    AcceptedForm =>
      /\ last.called
      /\ last.result.propagated = ""
      /\ last.result.ok \/ last.result.error # ""
      /\ last.result.ok =>
           /\ Len(db.txns) = Len(pre.txns) + 1
           /\ \A m \in 1..Len(db.moves) :
                m > Len(pre.moves) => db.moves[m].owner_id = 1

(* Both calls are Sales with allow_negative = false of product 1 with      *)
(* valid rows, each within the stock the calls started from, both together *)
(* above it, and the second was made while the first was in progress.      *)
RacingSales ==
    /\ \A p \in Procs :
         /\ procs[p].pc = "done"
         /\ procs[p].call.ttype = "Sale"
         /\ ~procs[p].call.allow_negative
         /\ \A i \in 1..Len(procs[p].call.items) :
              procs[p].call.items[i] \in ValidRows
         /\ ~Oversold(pre, procs[p].call.items, procs[p].call.warehouse_id)
    /\ Requested(procs[1].call.items, 1) + Requested(procs[2].call.items, 1)
         > StockOf(pre, 1, 1)
    /\ procs[1].call.warehouse_id = 1
    /\ procs[2].call.warehouse_id = 1
    /\ \E p \in Procs : procs[p].overlapped

(* C7. Concurrent sale race: when two Sales with allow_negative = false    *)
(* run concurrently against a pair whose stock suffices for exactly one of *)
(* them, under every interleaving exactly one call succeeds, the other is  *)
(* rejected, and the final Stock.quantity is >= 0.                         *)
C7_ExactlyOneSucceeds ==
    RacingSales =>
      /\ Cardinality({p \in Procs : procs[p].result.ok}) = 1
      /\ \A pw \in Pairs : db.stock_qty[pw] >= 0

====
